---- MODULE Spec2Model ----
(***************************************************************************)
(* Model of resume_print.py (PrintResumeTool): the resume-point resolver,  *)
(* the start-section stripper, the temperature extractor, the header       *)
(* synthesizer and process_gcode, which runs them in sequence.             *)
(*                                                                         *)
(* A line of the document is a record                                      *)
(*   [ind, code, a, b, cmt, c]                                             *)
(* standing for the text  <ws if ind> code(a,b) cmt(c) "\n" :               *)
(*   code is the part before the first ';' (a command, or "" for none),    *)
(*   cmt is the part from the first ';' on (or "" for none),               *)
(*   a, b, c are the numbers the text carries.                             *)
(* Heights and Z positions are in tenths of a millimetre, temperatures in  *)
(* degrees.  Line indices are 0-based as in the source: line i of a        *)
(* document d is d[i + 1].  A Python None is <<>>, a value v is <<v>>.     *)
(***************************************************************************)
EXTENDS Integers, Sequences, FiniteSets, TLC

VARIABLES content, resume_height, layer_height, bed_temp, hotend_temp,
          detected, resume_line, resumed_content, pos, in_removal_section,
          filtered_content, output_content, pc

vars == <<content, resume_height, layer_height, bed_temp, hotend_temp,
          detected, resume_line, resumed_content, pos, in_removal_section,
          filtered_content, output_content, pc>>

Max(x, y) == IF x >= y THEN x ELSE y

Min(x, y) == IF x <= y THEN x ELSE y

\* content[i] with the source's 0-based index
LineAt(doc, i) == doc[i + 1]

\* the 0-based line indices of doc in document order (enumerate(content));
\* a scan keeps those whose line passes its test, in this order
Indices(doc) == [k \in 1..Len(doc) |-> k - 1]

(***************************************************************************)
(* Lines                                                                   *)
(***************************************************************************)
Ln(code, a, b, cmt, c) ==
    [ind |-> FALSE, code |-> code, a |-> a, b |-> b, cmt |-> cmt, c |-> c]

Indented(line) == [line EXCEPT !.ind = TRUE]

\* line.strip()
strip(line) == [line EXCEPT !.ind = FALSE]

\* bool(stripped): the stripped text is not empty
NonEmpty(stripped) == stripped.code # "" \/ stripped.cmt # ""

\* stripped.startswith(';')
StartsWithSemicolon(stripped) == stripped.code = "" /\ stripped.cmt # ""

Blank == Ln("", 0, 0, "", 0)
MoveXY == Ln("G1 X", 0, 0, "", 0)
MoveZ(z) == Ln("G1 Z", z, 0, "", 0)
MoveZBad == Ln("G1 Zbad", 0, 0, "", 0)
Home == Ln("G28", 0, 0, "", 0)
BedSet(t) == Ln("M140 S", t, 0, "", 0)
BedWait(t) == Ln("M190 S", t, 0, "", 0)
HotendSet(t) == Ln("M104 S", t, 0, "", 0)
HotendWait(t) == Ln("M109 S", t, 0, "", 0)
PrintStart(bed, hotend) == Ln("PRINT_START BED= HOTEND=", bed, hotend, "", 0)
PrintStartRev(bed, hotend) == Ln("PRINT_START HOTEND= BED=", bed, hotend, "", 0)
Comment == Ln("", 0, 0, "; text", 0)
TypeComment == Ln("", 0, 0, ";TYPE:", 0)
ZComment(h) == Ln("", 0, 0, ";Z:", h)
ZCommentBad == Ln("", 0, 0, ";Z:bad", 0)
LayerChange == Ln("", 0, 0, ";LAYER_CHANGE", 0)
LayerNum(n) == Ln("", 0, 0, ";LAYER:", n)
BeforeLayerChange == Ln("", 0, 0, ";BEFORE_LAYER_CHANGE", 0)
LayerZ(h) == Ln("", 0, 0, "; layer N, z = ", h)
LayerZBad == Ln("", 0, 0, "; layer N, z = bad", 0)
LayerPrusa == Ln("", 0, 0, "; layer N", 0)

(***************************************************************************)
(* Marker Scanner: find_layer_changes_with_z                               *)
(***************************************************************************)
\* the look-back window of the backdating, range(max(0, i - 5), i)
LookBack == 5

\* re.match(r'^;Z:([\d.]+)', line) on the stripped line
z_comment_pattern(stripped) ==
    stripped.code = "" /\ stripped.cmt \in {";Z:", ";Z:bad"}

\* re.match(r'^; layer \d+, z = ([\d.]+)', line) on the stripped line
layer_z_pattern(stripped) ==
    stripped.code = "" /\ stripped.cmt \in {"; layer N, z = ", "; layer N, z = bad"}

\* re.match(r'^;LAYER:(\d+)', content[j].strip())
layer_num_pattern(stripped) ==
    stripped.code = "" /\ stripped.cmt = ";LAYER:"

\* ';LAYER_CHANGE' in content[j] or re.match(layer_num_pattern, ...)
IsLayerStart(line) ==
    line.cmt = ";LAYER_CHANGE" \/ layer_num_pattern(strip(line))

\* float(match.group(1)) raises ValueError on a payload such as 1.2.3
FloatRaises(line) ==
    line.cmt \in {";Z:bad", "; layer N, z = bad"} \/ line.code = "G1 Zbad"

\* for j in range(max(0, i - 5), i): the first j that starts a layer, else i
RECURSIVE layer_start(_, _, _)
layer_start(doc, j, i) ==
    IF j >= i THEN i
    ELSE IF IsLayerStart(LineAt(doc, j)) THEN j
    ELSE layer_start(doc, j + 1, i)

\* the tuple appended for line i, a line matching one of the two patterns
marker_entry(doc, i) ==
    IF z_comment_pattern(strip(LineAt(doc, i)))
    THEN <<layer_start(doc, Max(0, i - LookBack), i), LineAt(doc, i).c>>
    ELSE <<i, LineAt(doc, i).c>>

IsHeightLine(line) ==
    z_comment_pattern(strip(line)) \/ layer_z_pattern(strip(line))

\* the scanner raises (ValueError, not caught) at a malformed height payload
scanner_raises(doc) ==
    \E k \in 1..Len(doc) : IsHeightLine(doc[k]) /\ FloatRaises(doc[k])

find_layer_changes_with_z(doc) ==
    LET idx == SelectSeq(Indices(doc), LAMBDA i : IsHeightLine(LineAt(doc, i)))
    IN  [k \in 1..Len(idx) |-> marker_entry(doc, idx[k])]

(***************************************************************************)
(* Legacy marker scan and Motion Scanner                                   *)
(***************************************************************************)
\* re.search over the raw line, IGNORECASE, of the four layer_patterns
IsLegacyMarker(line) ==
    \/ line.cmt \in {";LAYER_CHANGE", ";LAYER:", ";BEFORE_LAYER_CHANGE"}
    \/ (line.code = "" /\ ~line.ind
          /\ line.cmt \in {"; layer N", "; layer N, z = ",
                           "; layer N, z = bad"})

find_layer_changes(doc) == SelectSeq(Indices(doc), LAMBDA i : IsLegacyMarker(LineAt(doc, i)))

\* re.search(r'G[01].*Z([-\d.]+)', line.split(';')[0].strip()) and the float
\* parses; a ValueError is caught and the line skipped
IsZMove(line) == line.code = "G1 Z"

find_z_moves(doc) ==
    LET idx == SelectSeq(Indices(doc), LAMBDA i : IsZMove(LineAt(doc, i)))
    IN  [k \in 1..Len(idx) |-> <<idx[k], LineAt(doc, idx[k]).a>>]

(***************************************************************************)
(* Resume Point Resolver: find_resume_layer, find_resume_by_z_only         *)
(***************************************************************************)
\* the window of find_resume_by_z_only, range(max(0, i - 10), i)
ZLookBack == 10

\* for line_num, z_height in layers_with_z: if z_height >= threshold: break
\* resume_line, or None
RECURSIVE first_layer(_, _, _)
first_layer(layers, k, threshold) ==
    IF k > Len(layers) THEN <<>>
    ELSE IF layers[k][2] >= threshold THEN <<layers[k][1]>>
    ELSE first_layer(layers, k + 1, threshold)

\* the inner loop of the legacy path: it sets resume_layer_idx at a Z move
\* after layer_line with z_pos >= threshold, and only then breaks
RECURSIVE z_move_after(_, _, _, _)
z_move_after(z_moves, m, layer_line, threshold) ==
    IF m > Len(z_moves) THEN FALSE
    ELSE IF z_moves[m][1] > layer_line /\ z_moves[m][2] >= threshold THEN TRUE
    ELSE z_move_after(z_moves, m + 1, layer_line, threshold)

\* the outer loop of the legacy path: resume_layer_idx (0-based), or None
RECURSIVE legacy_layer_idx(_, _, _, _)
legacy_layer_idx(layer_indices, i, z_moves, threshold) ==
    IF i >= Len(layer_indices) THEN <<>>
    ELSE IF z_move_after(z_moves, 1, layer_indices[i + 1], threshold)
         THEN <<i>>
    ELSE legacy_layer_idx(layer_indices, i + 1, z_moves, threshold)

\* for j in range(max(0, i - 10), i): the first motion entry j whose line
\* starts with ';', or None  (i, j are 0-based positions in z_moves)
RECURSIVE comment_entry(_, _, _, _)
comment_entry(doc, z_moves, j, i) ==
    IF j >= i THEN <<>>
    ELSE IF StartsWithSemicolon(strip(LineAt(doc, z_moves[j + 1][1])))
         THEN <<z_moves[j + 1][1]>>
    ELSE comment_entry(doc, z_moves, j + 1, i)

\* the loop of find_resume_by_z_only from entry i on
RECURSIVE by_z_only_from(_, _, _, _)
by_z_only_from(doc, z_moves, i, threshold) ==
    IF i >= Len(z_moves) THEN 0
    ELSE IF z_moves[i + 1][2] >= threshold
         THEN LET back == comment_entry(doc, z_moves, Max(0, i - ZLookBack), i)
              IN  IF back # <<>> THEN back[1]
                  ELSE z_moves[Max(0, i - 1) + 1][1]
    ELSE by_z_only_from(doc, z_moves, i + 1, threshold)

\* a faulty variant: the fallback is the number of lines, not line 0
find_resume_by_z_only_len(doc, target_height, lh) ==
    LET r == by_z_only_from(doc, find_z_moves(doc), 0, target_height - lh)
    IN  IF \E m \in 1..Len(find_z_moves(doc)) :
               find_z_moves(doc)[m][2] >= target_height - lh
        THEN r ELSE Len(doc)

find_resume_by_z_only(doc, target_height, lh) ==
    by_z_only_from(doc, find_z_moves(doc), 0, target_height - lh)

\* the legacy path, lines 247-275
legacy_resume(doc, target_height, lh) ==
    LET layer_indices == find_layer_changes(doc)
        z_moves == find_z_moves(doc)
        threshold == target_height - lh
        found == legacy_layer_idx(layer_indices, 0, z_moves, threshold)
        resume_layer_idx == IF found = <<>> THEN Len(layer_indices) - 1
                            ELSE found[1]
    IN  IF layer_indices = <<>>
        THEN find_resume_by_z_only(doc, target_height, lh)
        ELSE layer_indices[resume_layer_idx + 1]

\* a faulty variant: with no qualifying marker the first marker is used
markers_resume_first(layers_with_z, target_height, lh) ==
    LET found == first_layer(layers_with_z, 1, target_height - lh)
    IN  IF found # <<>> THEN found[1]
        ELSE layers_with_z[1][1]

\* the marker path, lines 225-245, for a non-empty layers_with_z
markers_resume(layers_with_z, target_height, lh) ==
    LET found == first_layer(layers_with_z, 1, target_height - lh)
    IN  IF found # <<>> THEN found[1]
        ELSE layers_with_z[Len(layers_with_z)][1]

\* find_resume_layer for a document on which the scanner does not raise
find_resume_layer(doc, target_height, lh) ==
    LET layers_with_z == find_layer_changes_with_z(doc)
    IN  IF layers_with_z # <<>>
        THEN markers_resume(layers_with_z, target_height, lh)
        ELSE legacy_resume(doc, target_height, lh)

(***************************************************************************)
(* Temperature Extractor: extract_temperatures                             *)
(***************************************************************************)
\* search_lines = content[:500]
SearchLines == 500

\* re.search(r'PRINT_START.*BED=(\d+).*HOTEND=(\d+)', line, re.IGNORECASE):
\* BED= has to come before HOTEND=
print_start_match(line) == line.code = "PRINT_START BED= HOTEND="

\* re.search(r'M1[49]0\s+S(\d+)', line)
bed_match(line) == line.code \in {"M140 S", "M190 S"}

\* re.search(r'M10[49]\s+S(\d+)', line)
hotend_match(line) == line.code \in {"M104 S", "M109 S"}

\* a faulty variant: the macro fills in only what no directive has set yet
temperature_step_keep(line, bed, hotend) ==
    IF print_start_match(line)
    THEN [bed |-> IF bed = <<>> THEN <<line.a>> ELSE bed,
          hotend |-> IF hotend = <<>> THEN <<line.b>> ELSE hotend,
          stop |-> TRUE]
    ELSE LET bed2 == IF bed = <<>> /\ bed_match(line) /\ line.a > 0
                     THEN <<line.a>> ELSE bed
             hotend2 == IF hotend = <<>> /\ hotend_match(line) /\ line.a > 0
                        THEN <<line.a>> ELSE hotend
         IN  [bed |-> bed2, hotend |-> hotend2,
              stop |-> bed2 # <<>> /\ hotend2 # <<>>]

\* one pass of the loop body, lines 101-128, on the stripped line:
\* the new bed_temp and hotend_temp, and whether the loop breaks
temperature_step(line, bed, hotend) ==
    IF print_start_match(line)
    THEN [bed |-> <<line.a>>, hotend |-> <<line.b>>, stop |-> TRUE]
    ELSE LET bed2 == IF bed = <<>> /\ bed_match(line) /\ line.a > 0
                     THEN <<line.a>> ELSE bed
             hotend2 == IF hotend = <<>> /\ hotend_match(line) /\ line.a > 0
                        THEN <<line.a>> ELSE hotend
         IN  [bed |-> bed2, hotend |-> hotend2,
              stop |-> bed2 # <<>> /\ hotend2 # <<>>]

\* for line in search_lines: the loop over lines lo..hi of search_lines from
\* the loop state st = [bed, hotend, stop], a line after the break leaving it
\* unchanged; the range is run as its first half and then its second half
RECURSIVE temperature_loop(_, _, _, _)
temperature_loop(search_lines, lo, hi, st) ==
    IF lo > hi \/ st.stop THEN st
    ELSE IF lo = hi
         THEN temperature_step(strip(search_lines[lo]), st.bed, st.hotend)
    ELSE LET mid == (lo + hi) \div 2
         IN  temperature_loop(search_lines, mid + 1, hi,
                 temperature_loop(search_lines, lo, mid, st))

\* returns (bed_temp, hotend_temp)
extract_temperatures(doc) ==
    LET search_lines == SubSeq(doc, 1, Min(SearchLines, Len(doc)))
        st == temperature_loop(search_lines, 1, Len(search_lines),
                               [bed |-> <<>>, hotend |-> <<>>, stop |-> FALSE])
    IN  <<st.bed, st.hotend>>

(***************************************************************************)
(* Start-Section Stripper: remove_homing_and_start                         *)
(***************************************************************************)
\* re.match(pattern, stripped, re.IGNORECASE) for a pattern of patterns_to_remove
matches_pattern_to_remove(stripped) ==
    \/ stripped.code \in {"G28", "G28 X Y", "G28 Z", "M107", "G92 E0", "M82",
                          "G90", "M140 S", "M190 S", "M104 S", "M109 S"}
    \/ (stripped.code = "" /\ stripped.cmt = ";PRINT_START")

\* is_removable after lines 316-324
is_removable(stripped) ==
    \/ matches_pattern_to_remove(stripped)
    \/ (StartsWithSemicolon(stripped) /\ stripped.cmt # ";TYPE:")

\* a faulty variant: the flag is not kept, every removable line is dropped
strip_step_every(in_removal, line) ==
    IF ~is_removable(strip(line)) /\ NonEmpty(strip(line))
    THEN [in_removal |-> FALSE, out |-> <<line>>]
    ELSE [in_removal |-> in_removal, out |-> <<>>]

\* a faulty variant: the stripped text is appended instead of the line
strip_step_stripped(in_removal, line) ==
    IF in_removal
    THEN IF ~is_removable(strip(line)) /\ NonEmpty(strip(line))
         THEN [in_removal |-> FALSE, out |-> <<strip(line)>>]
         ELSE [in_removal |-> TRUE, out |-> <<>>]
    ELSE [in_removal |-> FALSE, out |-> <<strip(line)>>]

\* one pass of the loop body, lines 311-334: the new in_removal_section and
\* what is appended to filtered_content
strip_step(in_removal, line) ==
    IF in_removal
    THEN IF ~is_removable(strip(line)) /\ NonEmpty(strip(line))
         THEN [in_removal |-> FALSE, out |-> <<line>>]
         ELSE [in_removal |-> TRUE, out |-> <<>>]
    ELSE [in_removal |-> FALSE, out |-> <<line>>]

(***************************************************************************)
(* Header Synthesizer: create_resume_header                                *)
(***************************************************************************)
\* Python truth of self.bed_temp / self.hotend_temp: None and 0 are false
Truthy(t) == t # <<>> /\ t[1] # 0

\* lines 374-403
heating_block(bed, hotend) ==
    IF Truthy(bed) /\ Truthy(hotend)
    THEN << Ln("", 0, 0, "; Heat bed and nozzle", 0),
            Ln("M140 S", bed[1], 0, "; Set bed temperature", 0),
            Ln("M104 S", hotend[1], 0, "; Set hotend temperature", 0),
            Ln("M190 S", bed[1], 0, "; Wait for bed temperature", 0),
            Ln("M109 S", hotend[1], 0, "; Wait for hotend temperature", 0),
            Blank >>
    ELSE IF Truthy(bed)
    THEN << Ln("", 0, 0, "; Heat bed (hotend temp not detected - set manually before starting)", 0),
            Ln("M140 S", bed[1], 0, "; Set bed temperature", 0),
            Ln("M190 S", bed[1], 0, "; Wait for bed temperature", 0),
            Blank >>
    ELSE IF Truthy(hotend)
    THEN << Ln("", 0, 0, "; Heat hotend (bed temp not detected - set manually before starting)", 0),
            Ln("M104 S", hotend[1], 0, "; Set hotend temperature", 0),
            Ln("M109 S", hotend[1], 0, "; Wait for hotend temperature", 0),
            Blank >>
    ELSE << Ln("", 0, 0, "; WARNING: Temperatures not detected!", 0),
            Ln("", 0, 0, "; Heat bed and nozzle manually before starting this file.", 0),
            Blank >>

\* lines 347-372
header_top(rh, lh, bed, hotend) ==
    << Ln("", 0, 0, "; === PRINT RESUME TOOL ===", 0),
       Ln("", 0, 0, "; Resume height: mm", rh),
       Ln("", 0, 0, "; Layer height: mm", lh) >>
    \o (IF Truthy(bed) THEN <<Ln("", 0, 0, "; Bed temperature: C", bed[1])>>
        ELSE <<>>)
    \o (IF Truthy(hotend)
        THEN <<Ln("", 0, 0, "; Hotend temperature: C", hotend[1])>>
        ELSE <<>>)
    \o << Ln("", 0, 0, ";", 0),
          Ln("", 0, 0, "; WORKFLOW:", 0),
          Ln("", 0, 0, "; 1. File will heat bed and nozzle automatically", 0),
          Ln("", 0, 0, "; 2. File will home X and Y automatically", 0),
          Ln("", 0, 0, "; 3. Printer will PAUSE - move nozzle to Z= mm manually", rh),
          Ln("", 0, 0, "; 4. Click RESUME to continue printing", 0),
          Ln("", 0, 0, ";", 0),
          Blank,
          Ln("", 0, 0, "; === START RESUME SEQUENCE ===", 0),
          Blank,
          Ln("", 0, 0, "; Set absolute positioning", 0),
          Ln("G90", 0, 0, "", 0),
          Blank >>

\* lines 405-428
header_bottom(rh) ==
    << Ln("", 0, 0, "; Home X and Y axes", 0),
       Ln("G28 X Y", 0, 0, "", 0),
       Blank,
       Ln("", 0, 0, "; === PAUSE FOR MANUAL NOZZLE POSITIONING ===", 0),
       Ln("", 0, 0, "; Move the nozzle to Z= mm above the print surface", rh),
       Ln("", 0, 0, "; Use the LCD or web interface to jog Z to the correct height", 0),
       Ln("", 0, 0, "; The nozzle should be approximately one layer height above the last printed layer", 0),
       Ln("PAUSE MSG=", rh, 0, "", 0),
       Blank,
       Ln("", 0, 0, "; === AFTER RESUME ===", 0),
       Ln("", 0, 0, "; Set current Z position to resume height", 0),
       Ln("G92 Z", rh, 0, "", 0),
       Blank,
       Ln("", 0, 0, "; Reset extruder position", 0),
       Ln("G92 E0", 0, 0, "", 0),
       Blank,
       Ln("", 0, 0, "; Set modes for printing", 0),
       Ln("M83", 0, 0, "; Extruder relative mode", 0),
       Ln("G90", 0, 0, "; Absolute positioning", 0),
       Blank,
       Ln("", 0, 0, "; === BEGIN RESUMED PRINT ===", 0),
       Blank >>

create_resume_header(rh, lh, bed, hotend) ==
    header_top(rh, lh, bed, hotend) \o heating_block(bed, hotend)
        \o header_bottom(rh)

(***************************************************************************)
(* process_gcode                                                           *)
(***************************************************************************)
\* content[resume_line:]
slice_from(doc, n) == SubSeq(doc, n + 1, Len(doc))

\* lines 442-448: detection runs when an override is missing, and fills in
\* only the missing ones
DetectTemperatures ==
    /\ pc = "start"
    /\ IF bed_temp = <<>> \/ hotend_temp = <<>>
       THEN /\ detected' = extract_temperatures(content)
            /\ bed_temp' = IF bed_temp = <<>> THEN detected'[1] ELSE bed_temp
            /\ hotend_temp' = IF hotend_temp = <<>> THEN detected'[2]
                              ELSE hotend_temp
       ELSE UNCHANGED <<detected, bed_temp, hotend_temp>>
    /\ pc' = "resolve"
    /\ UNCHANGED <<content, resume_height, layer_height, resume_line,
                   resumed_content, pos, in_removal_section,
                   filtered_content, output_content>>

\* lines 460-465 and the entry of remove_homing_and_start (lines 308-309);
\* a ValueError of the marker scanner is not caught and ends the run
FindResumeLayer ==
    /\ pc = "resolve"
    /\ IF scanner_raises(content)
       THEN /\ pc' = "raised"
            /\ UNCHANGED <<resume_line, resumed_content>>
       ELSE /\ resume_line' = find_resume_layer(content, resume_height,
                                                layer_height)
            /\ resumed_content' = slice_from(content, resume_line')
            /\ pc' = "strip"
    /\ pos' = 0
    /\ in_removal_section' = TRUE
    /\ filtered_content' = <<>>
    /\ UNCHANGED <<content, resume_height, layer_height, bed_temp,
                   hotend_temp, detected, output_content>>

\* one iteration of the loop of remove_homing_and_start, lines 311-334
RemoveLine ==
    /\ pc = "strip"
    /\ pos < Len(resumed_content)
    /\ LET r == strip_step(in_removal_section, LineAt(resumed_content, pos))
       IN  /\ in_removal_section' = r.in_removal
           /\ filtered_content' = filtered_content \o r.out
    /\ pos' = pos + 1
    /\ UNCHANGED <<content, resume_height, layer_height, bed_temp,
                   hotend_temp, detected, resume_line, resumed_content,
                   output_content, pc>>

\* the loop is over: lines 336 and 470-477
WriteOutput ==
    /\ pc = "strip"
    /\ pos = Len(resumed_content)
    /\ output_content' =
           create_resume_header(resume_height, layer_height, bed_temp,
                                hotend_temp) \o filtered_content
    /\ pc' = "done"
    /\ UNCHANGED <<content, resume_height, layer_height, bed_temp,
                   hotend_temp, detected, resume_line, resumed_content, pos,
                   in_removal_section, filtered_content>>

Next == DetectTemperatures \/ FindResumeLayer \/ RemoveLine \/ WriteOutput

(***************************************************************************)
(* Inputs                                                                  *)
(***************************************************************************)
\* the documents of at most n lines over a set of lines
Docs(lines, n) == UNION {[1..m -> lines] : m \in 0..n}

\* the state at the entry of process_gcode, after parse_arguments
InitWith(docs, heights, layer_heights, beds, hotends) ==
    /\ content \in docs
    /\ resume_height \in heights
    /\ layer_height \in layer_heights
    /\ bed_temp \in beds
    /\ hotend_temp \in hotends
    /\ detected = <<>>
    /\ resume_line = <<>>
    /\ resumed_content = <<>>
    /\ pos = 0
    /\ in_removal_section = TRUE
    /\ filtered_content = <<>>
    /\ output_content = <<>>
    /\ pc = "start"

\* --layer-height, default 0.2 mm
DefaultLayerHeight == 2

\* documents for the resolver: short ones with markers of both dialects,
\* layer-change comments, vertical moves, a plain comment and a plain move;
\* and longer ones over fewer lines, in which a layer-index comment can lie
\* more than LookBack lines before a ;Z: comment
MaxLenResolve == 4

MaxLenWindow == 7

ResolveLines ==
    {ZComment(2), ZComment(4), LayerZ(2), LayerChange, MoveZ(2), MoveZ(4),
     Comment, MoveXY}

WindowLines == {LayerNum(1), ZComment(2), MoveXY}

InitResolve ==
    InitWith(Docs(ResolveLines, MaxLenResolve)
                 \cup Docs(WindowLines, MaxLenWindow),
             {1, 6, 8}, {1, DefaultLayerHeight}, {<<>>}, {<<>>})

SpecResolve == InitResolve /\ [][Next]_vars

\* documents for the stripper: setup commands, comments, a kept comment,
\* a move, an empty line, an indented command and a height marker
MaxLenStrip == 4

StripLines ==
    {Home, Indented(Home), HotendSet(200), Comment, TypeComment, MoveXY,
     Blank, ZComment(2)}

InitStrip ==
    InitWith(Docs(StripLines, MaxLenStrip), {4, 6}, {DefaultLayerHeight},
             {<<>>}, {<<>>})

SpecStrip == InitStrip /\ [][Next]_vars

\* documents for the temperature extractor: short ones, and ones whose first
\* SearchLines - 1 lines are empty, so that the tail straddles the limit
MaxLenTemp == 3

MaxLenTail == 2

TempLines ==
    {PrintStart(85, 230), PrintStartRev(85, 230), BedSet(60), BedWait(70),
     BedWait(0), HotendSet(200), HotendWait(0), MoveXY}

Padding == [k \in 1..(SearchLines - 1) |-> Blank]

InitTemp ==
    InitWith(Docs(TempLines, MaxLenTemp)
                 \cup {Padding \o d : d \in Docs(TempLines, MaxLenTail)},
             {4}, {DefaultLayerHeight}, {<<>>}, {<<>>})

SpecTemp == InitTemp /\ [][Next]_vars

\* runs for the header: every combination of absent, zero and positive
\* overrides, over documents that may carry directives or a macro
MaxLenHeader == 2

HeaderLines == {PrintStart(0, 230), BedSet(60), HotendSet(200), MoveXY}

InitHeader ==
    InitWith(Docs(HeaderLines, MaxLenHeader), {4}, {DefaultLayerHeight},
             {<<>>, <<0>>, <<60>>}, {<<>>, <<0>>, <<200>>})

SpecHeader == InitHeader /\ [][Next]_vars

\* documents with numeric payloads the patterns match and float() rejects: a
\* vertical move, a ;Z: comment and a '; layer N, z = H' comment, among
\* well-formed markers and moves
MaxLenMalformed == 3

MalformedLines ==
    {MoveZBad, ZCommentBad, LayerZBad, ZComment(2), ZComment(4), MoveZ(4),
     LayerChange, MoveXY}

InitMalformed ==
    InitWith(Docs(MalformedLines, MaxLenMalformed), {1, 6},
             {DefaultLayerHeight}, {<<>>}, {<<>>})

SpecMalformed == InitMalformed /\ [][Next]_vars

Spec == SpecResolve

(***************************************************************************)
(* Properties                                                              *)
(***************************************************************************)
\* find_resume_layer has returned
Resolved == pc \in {"strip", "done"}

Threshold == resume_height - layer_height

\* the least element of a non-empty set of integers
Least(S) == CHOOSE x \in S : \A y \in S : x <= y

\* the document with every vertical move replaced by a plain move
WithoutZMoves(doc) ==
    [k \in 1..Len(doc) |-> IF IsZMove(doc[k]) THEN MoveXY ELSE doc[k]]

\* C1: when the marker scanner yields at least one height-bearing marker,
\* the resume line is the line index of the first marker, in scanner output
\* order, whose height is >= target - layer height, and the last marker's
\* line index when none qualifies; with a negative threshold it is the first
\* marker's line index; the vertical moves of the document do not change it.
C1_FirstQualifyingMarker ==
    (Resolved /\ find_layer_changes_with_z(content) # <<>>) =>
        LET M == find_layer_changes_with_z(content)
            Q == {k \in 1..Len(M) : M[k][2] >= Threshold}
        IN  /\ Q # {} => resume_line = M[Least(Q)][1]
            /\ Q = {} => resume_line = M[Len(M)][1]
            /\ Threshold < 0 => resume_line = M[1][1]
            /\ resume_line = find_resume_layer(WithoutZMoves(content),
                                               resume_height, layer_height)

\* a later marker is chosen because the first one is below the threshold,
\* in a document that also holds a vertical move
C1_Witness ==
    /\ Resolved
    /\ Len(find_layer_changes_with_z(content)) >= 2
    /\ find_layer_changes_with_z(content)[1][2] < Threshold
    /\ find_layer_changes_with_z(content)[2][2] >= Threshold
    /\ resume_line = find_layer_changes_with_z(content)[2][1]
    /\ resume_line # find_layer_changes_with_z(content)[1][1]
    /\ find_z_moves(content) # <<>>

\* C2 as stated: on every document and every path the returned index
\* satisfies 0 <= lineIndex < len(document).
C2_BoundsEveryDocument ==
    Resolved => (0 <= resume_line /\ resume_line < Len(content))

\* C2 amended: on every non-empty document and every path the returned index
\* satisfies 0 <= lineIndex < len(document); on the empty document it is 0.
C2_BoundsNonEmptyDocument ==
    Resolved =>
        /\ content # <<>> => (0 <= resume_line /\ resume_line < Len(content))
        /\ content = <<>> => resume_line = 0

\* the motion-only path returns a line other than the first
C2_Witness ==
    /\ Resolved
    /\ find_layer_changes_with_z(content) = <<>>
    /\ find_layer_changes(content) = <<>>
    /\ find_z_moves(content) # <<>>
    /\ resume_line > 0

\* the line indices of a scanner's entries never decrease
NonDecreasing(entries) ==
    \A k \in 1..(Len(entries) - 1) : entries[k][1] <= entries[k + 1][1]

\* C3: the list of find_layer_changes_with_z and the list of find_z_moves
\* are each non-decreasing in line index.
C3_ScannersOrdered ==
    Resolved =>
        /\ NonDecreasing(find_layer_changes_with_z(content))
        /\ NonDecreasing(find_z_moves(content))

\* a line that ends the removal: not empty, matching no setup-command
\* pattern, and not a comment without the keep prefix
EndsRemoval(line) ==
    /\ NonEmpty(strip(line))
    /\ ~matches_pattern_to_remove(strip(line))
    /\ ~(StartsWithSemicolon(strip(line)) /\ strip(line).cmt # ";TYPE:")

\* the positions, among the first n lines of the tail, of the lines that end
\* the removal
EndsWithin(n) == {k \in 1..n : EndsRemoval(resumed_content[k])}

\* after pos lines of the tail: nothing is emitted and the stripper is still
\* removing until the first line that ends the removal; from that line on
\* every line read so far has been emitted unchanged and in order
StripperSoFar ==
    pc \in {"strip", "done"} =>
        IF EndsWithin(pos) = {}
        THEN in_removal_section /\ filtered_content = <<>>
        ELSE /\ ~in_removal_section
             /\ filtered_content =
                    SubSeq(resumed_content, Least(EndsWithin(pos)), pos)

\* once the stripper passes lines through, its next step does so too
StaysPassThrough == ~in_removal_section => ~in_removal_section'

\* C4: remove_homing_and_start starts removing and passes through from the
\* first line that is not empty, matches no setup-command pattern and is not
\* a comment without the keep prefix; that line and every later line is
\* emitted unchanged and in order, whatever it matches, and the stripper
\* never goes back to removing.
C4_StickyPassThrough == []StripperSoFar /\ [][StaysPassThrough]_vars

\* the stripper dropped a leading line, then passed a line through, and after
\* it emitted a line that matches a removal pattern
C4_Witness ==
    /\ pc = "done"
    /\ \E k \in 2..Len(resumed_content) :
           /\ EndsWithin(k - 1) = {}
           /\ EndsRemoval(resumed_content[k])
           /\ \E j \in (k + 1)..Len(resumed_content) :
                  is_removable(strip(resumed_content[j]))
           /\ filtered_content =
                  SubSeq(resumed_content, k, Len(resumed_content))

\* C5: the output document is the synthesized header followed by a suffix
\* content[k:] of the input with k >= the resume point: every input line at
\* or after k appears once, unchanged and in order, and no line before the
\* resume point appears.
C5_HeaderThenSuffix ==
    pc = "done" =>
        \E k \in resume_line..Len(content) :
            output_content =
                create_resume_header(resume_height, layer_height, bed_temp,
                                     hotend_temp) \o slice_from(content, k)

\* the resume point is past line 0, the stripper dropped at least one line
\* after it and kept at least one
C5_Witness ==
    /\ pc = "done"
    /\ resume_line > 0
    /\ Len(filtered_content) > 0
    /\ Len(filtered_content) < Len(content) - resume_line
    /\ \E k \in 1..Len(filtered_content) : filtered_content[k].ind

\* the first motion entry at or above the threshold, as a position in the
\* list of find_z_moves
FirstReaching(z_moves) ==
    Least({m \in 1..Len(z_moves) : z_moves[m][2] >= Threshold})

\* the comment-only lines in the ZLookBack lines before line n
CommentsBefore(n) ==
    {c \in Max(0, n - ZLookBack)..(n - 1) :
        StartsWithSemicolon(strip(LineAt(content, c)))}

\* C6: with no layer markers of any kind, when the first motion entry with
\* z >= threshold is preceded within the look-back window by a comment-only
\* line, find_resume_by_z_only returns that comment-only line's index.
C6_LookBackToComment ==
    (/\ Resolved
     /\ find_layer_changes_with_z(content) = <<>>
     /\ find_layer_changes(content) = <<>>
     /\ \E m \in 1..Len(find_z_moves(content)) :
            find_z_moves(content)[m][2] >= Threshold
     /\ CommentsBefore(
            find_z_moves(content)[FirstReaching(find_z_moves(content))][1])
          # {})
    => resume_line \in CommentsBefore(
           find_z_moves(content)[FirstReaching(find_z_moves(content))][1])

\* the lines extract_temperatures looks at, as positions of content
SearchRange == 1..Min(SearchLines, Len(content))

\* the first strictly positive value of a directive within the first
\* SearchLines lines, or None
FirstPositive(codes) ==
    LET at == {k \in SearchRange :
                  content[k].code \in codes /\ content[k].a > 0}
    IN  IF at = {} THEN <<>> ELSE <<content[Least(at)].a>>

\* a positive value of the directive occurs on a line before position m
PositiveBefore(codes, m) ==
    \E k \in 1..(m - 1) : content[k].code \in codes /\ content[k].a > 0

Discrete == <<FirstPositive({"M140 S", "M190 S"}),
              FirstPositive({"M104 S", "M109 S"})>>

\* the macro lines within the first SearchLines lines: the lines the pattern
\* matches, which wants BED= before HOTEND=
OrderedMacroLines ==
    {k \in SearchRange : content[k].code = "PRINT_START BED= HOTEND="}

MacroReached ==
    /\ OrderedMacroLines # {}
    /\ ~(/\ PositiveBefore({"M140 S", "M190 S"}, Least(OrderedMacroLines))
         /\ PositiveBefore({"M104 S", "M109 S"}, Least(OrderedMacroLines)))

OutputHeader ==
    SubSeq(output_content, 1, Len(output_content) - Len(filtered_content))

\* the header holds a command with this code and this value
HeaderHas(code, t) ==
    \E k \in 1..Len(OutputHeader) :
        OutputHeader[k].code = code /\ OutputHeader[k].a = t

\* the header holds a heating command for these codes
HeaderHeats(codes) ==
    \E k \in 1..Len(OutputHeader) : OutputHeader[k].code \in codes

\* the header holds this comment
HeaderSays(cmt) ==
    \E k \in 1..Len(OutputHeader) :
        OutputHeader[k].code = "" /\ OutputHeader[k].cmt = cmt

\* C8: with a temperature known when it was detected or supplied, whatever
\* its value, the header sets and waits for bed and hotend when both are
\* known, sets and waits for the known one and warns about the other when
\* one is known, and holds the 'temperatures not detected' warning and no
\* heating command when neither is known.
C8_HeatingFollowsKnown ==
    pc = "done" =>
        LET bedKnown == bed_temp # <<>>
            hotendKnown == hotend_temp # <<>>
        IN  /\ bedKnown =>
                  HeaderHas("M140 S", bed_temp[1])
                      /\ HeaderHas("M190 S", bed_temp[1])
            /\ hotendKnown =>
                  HeaderHas("M104 S", hotend_temp[1])
                      /\ HeaderHas("M109 S", hotend_temp[1])
            /\ (bedKnown /\ ~hotendKnown) =>
                  /\ HeaderSays("; Heat bed (hotend temp not detected - set manually before starting)")
                  /\ ~HeaderHeats({"M104 S", "M109 S"})
            /\ (hotendKnown /\ ~bedKnown) =>
                  /\ HeaderSays("; Heat hotend (bed temp not detected - set manually before starting)")
                  /\ ~HeaderHeats({"M140 S", "M190 S"})
            /\ (~bedKnown /\ ~hotendKnown) =>
                  /\ HeaderSays("; WARNING: Temperatures not detected!")
                  /\ ~HeaderHeats({"M140 S", "M190 S", "M104 S", "M109 S"})

\* the Z moves on lines strictly after line n, as positions in find_z_moves
MovesAfter(n) ==
    {m \in 1..Len(find_z_moves(content)) : find_z_moves(content)[m][1] > n}

\* the height paired with the height-less marker on line n reaches the
\* threshold: the first Z move strictly after it, and no later one
PairedReaches(n) ==
    /\ MovesAfter(n) # {}
    /\ find_z_moves(content)[Least(MovesAfter(n))][2] >= Threshold

\* C9: with no height-bearing marker but height-less ones, find_resume_layer
\* pairs each marker with the first Z move strictly after it and returns the
\* first marker whose paired height >= threshold, or the last marker when
\* none qualifies; the result is always a marker's line.
C9_LegacyPairsFirstMove ==
    (/\ Resolved
     /\ find_layer_changes_with_z(content) = <<>>
     /\ find_layer_changes(content) # <<>>)
    => LET L == find_layer_changes(content)
           Q == {i \in 1..Len(L) : PairedReaches(L[i])}
       IN  /\ Q # {} => resume_line = L[Least(Q)]
           /\ Q = {} => resume_line = L[Len(L)]
           /\ IsLegacyMarker(LineAt(content, resume_line))

\* the 0-based lines holding a height-bearing comment, in document order
HeightLines == SelectSeq(Indices(content), LAMBDA i : IsHeightLine(LineAt(content, i)))

\* C10: the line index recorded for a ;Z: marker is its own line or a
\* layer-change comment after the previous height-bearing comment; and when
\* heights increase through the document and some marker qualifies, no
\* height-bearing comment below the threshold lies at or after the resume
\* line.
C10_BackdatesWithinOwnLayer ==
    Resolved =>
        LET M == find_layer_changes_with_z(content)
        IN  /\ \A k \in 1..Len(M) :
                   z_comment_pattern(strip(LineAt(content, HeightLines[k])))
                   => \/ M[k][1] = HeightLines[k]
                      \/ /\ IsLayerStart(LineAt(content, M[k][1]))
                         /\ M[k][1] < HeightLines[k]
                         /\ k > 1 => M[k][1] > HeightLines[k - 1]
            /\ (/\ \A k \in 1..(Len(M) - 1) : M[k][2] < M[k + 1][2]
                /\ \E k \in 1..Len(M) : M[k][2] >= Threshold)
               => \A k \in 1..Len(M) :
                      HeightLines[k] >= resume_line => M[k][2] >= Threshold

\* the document with every line whose numeric payload float() rejects
\* replaced by a line of the same kind that carries no payload, and so yields
\* no entry: a plain move, a plain comment, a layer comment without height
WithoutMalformed(doc) ==
    [k \in 1..Len(doc) |->
        IF doc[k].code = "G1 Zbad" THEN [doc[k] EXCEPT !.code = "G1 X"]
        ELSE IF doc[k].cmt = ";Z:bad" THEN [doc[k] EXCEPT !.cmt = "; text"]
        ELSE IF doc[k].cmt = "; layer N, z = bad"
             THEN [doc[k] EXCEPT !.cmt = "; layer N"]
        ELSE doc[k]]

\* C11: resolution never aborts on a malformed number: a vertical move or a
\* height comment whose payload matches the pattern and does not parse yields
\* no entry, and find_resume_layer returns the resume line it returns for the
\* document without these payloads, instead of raising.
C11_ResolutionTotal ==
    /\ pc # "raised"
    /\ Resolved =>
           resume_line = find_resume_layer(WithoutMalformed(content),
                                           resume_height, layer_height)

====
